---- MODULE Spec2Model ----
(***************************************************************************)
(* Tensor-parallel GPT block of benchmark/torch/model/gpt_tp.py.           *)
(*                                                                         *)
(* Tensors are modelled by their shapes and, where a property is about     *)
(* values, by small integer matrices.  A score divided by                  *)
(* sqrt(attention_head_size) is kept exactly as the pair (num, den2),      *)
(* standing for num / sqrt(den2).                                          *)
(***************************************************************************)
EXTENDS Integers, Sequences, FiniteSets, TLC

\* ------------------------------------------------------------------ bounds
\* Longest sequence length (q_len, k_len, v_len) a forward call is given.
MaxLen == 3

\* ------------------------------------------------------- AttentionCore state
VARIABLES
    attention_head_size,  \* AttentionCore.attention_head_size, per instance
    causal_mask,          \* AttentionCore.causal_mask, per instance
    last                  \* the most recent AttentionCore.forward call and its outcome

attnVars == <<attention_head_size, causal_mask, last>>

\* ------------------------------------------------- construction-time state
VARIABLES
    config,   \* the arguments GPTLayer is constructed with, and world_size
    layer,    \* the outcome of GPTLayer.__init__
    shapes    \* per rank, the shapes SelfAttention.forward computed

cfgVars == <<config, layer, shapes>>

\* ----------------------------------------------------- FeedForward state
VARIABLES
    ffIn,    \* the layer's logical weights, its input and world_size
    ffPart,  \* per rank, the partial product handed to the all-reduce
    ffOut    \* per rank, what FeedForward.forward returned

ffVars == <<ffIn, ffPart, ffOut>>

\* ------------------------------------------------------- GPT.forward state
VARIABLES
    stack,    \* depth of the GPT and world_size of the group running it
    idx,      \* per rank, the number of collectives it has completed
    waiting,  \* per rank, whether it is blocked inside a collective
    hidden,   \* per rank, the running hidden state x of GPT.forward
    slots,    \* the group's collectives, in issue order: rank -> tensor handed in
    issued,   \* per rank, the collectives it has started
    ret       \* per rank, what GPT.forward returned

stackVars == <<stack, idx, waiting, hidden, slots, issued, ret>>

\* The AttentionCore instances of a two-layer stack (one per SelfAttention).
Instances == {"blocks0", "blocks1"}

\* Head sizes the instances are constructed with (dim // num_heads).
HeadSizes == {2}

Lens == 1..MaxLen

\* self.where_const
where_const == -10000

\* self.causal_mask = None
NoneMask == [present |-> FALSE, q |-> 0, k |-> 0, rows |-> <<>>]

NoCall == [status |-> "none"]

Max(a, b) == IF a >= b THEN a ELSE b

\* A lower triangle without its diagonal (torch.tril(..., diagonal=-1)).
TrilBug(q_len, k_len) ==
    [i \in 1..q_len |-> [j \in 1..k_len |-> j < i]]

\* torch.tril(torch.ones((q_len, k_len))).bool(): entry (i, j) is kept when
\* it lies on or below the main diagonal.
Tril(q_len, k_len) ==
    [i \in 1..q_len |-> [j \in 1..k_len |-> j <= i]]

\* The mask object built at lines 33-35, viewed as (1, 1, q_len, k_len).
BuildMask(q_len, k_len) ==
    [present |-> TRUE, q |-> q_len, k |-> k_len, rows |-> Tril(q_len, k_len)]

\* The query and key rows of a call, for one batch entry and one head: the
\* first two features of q[i] are (i, 1), those of k[j] are
\* (MaxLen + 1, j), the others are 0, so that every score is different.
QRow(i, hs) == [d \in 1..hs |-> IF d = 1 THEN i ELSE IF d = 2 THEN 1 ELSE 0]
KRow(j, hs) == [d \in 1..hs |-> IF d = 1 THEN MaxLen + 1 ELSE IF d = 2 THEN j ELSE 0]

RECURSIVE Dot(_, _, _)
Dot(a, b, n) == IF n = 0 THEN 0 ELSE a[n] * b[n] + Dot(a, b, n - 1)

\* torch.matmul(q, k.transpose(-1, -2)).
RawScores(q_len, k_len, hs) ==
    [i \in 1..q_len |-> [j \in 1..k_len |-> Dot(QRow(i, hs), KRow(j, hs), hs)]]

\* x / math.sqrt(self.attention_head_size), kept exactly.
Scale(raw, hs) == [num |-> raw, den2 |-> hs]

\* The fill value as a tensor element.
Fill == [num |-> where_const, den2 |-> 1]

\* Broadcasting of two sizes of one axis: equal, or one of them is 1.
Broadcastable(a, b) == a = b \/ a = 1 \/ b = 1

\* Index into an axis of size n from a broadcast axis.
BIdx(i, n) == IF n = 1 THEN 1 ELSE i

\* torch.where(self.causal_mask, x, self.where_const) with broadcasting of
\* the mask (mq x mk) against the scores (q_len x k_len).
Where(mask, x, q_len, k_len) ==
    [i \in 1..Max(mask.q, q_len) |->
        [j \in 1..Max(mask.k, k_len) |->
            IF mask.rows[BIdx(i, mask.q)][BIdx(j, mask.k)]
            THEN x[BIdx(i, q_len)][BIdx(j, k_len)]
            ELSE Fill]]

\* A cache keyed by the lengths: rebuilt when they differ from the call's.
MaskAfterCheckStale(cached, q_len, k_len) ==
    IF cached.present /\ cached.q = q_len /\ cached.k = k_len
    THEN cached ELSE BuildMask(q_len, k_len)

\* The mask self.causal_mask holds when line 36 runs: the cached one, or the
\* one just built when none was cached.
MaskAfterCheck(cached, q_len, k_len) ==
    IF cached.present THEN cached ELSE BuildMask(q_len, k_len)

\* AttentionCore.forward on instance inst with q of q_len rows, k of k_len
\* rows and k_hs features, v of v_len rows.  Gives the new cached mask and
\* the record of the call.
ForwardResult(inst, q_len, k_len, v_len, k_hs) ==
    LET hs     == attention_head_size[inst]
        cached == causal_mask[inst]
        call   == [inst |-> inst, q_len |-> q_len, k_len |-> k_len,
                   v_len |-> v_len, k_hs |-> k_hs]
    IN
    IF k_hs # hs
    THEN \* line 26 raises: the inner dimensions of q and k^T differ
         [mask |-> cached,
          call |-> call @@ [status |-> "error_qk", built |-> FALSE]]
    ELSE
    LET x0   == RawScores(q_len, k_len, hs)
        x1   == [i \in 1..q_len |-> [j \in 1..k_len |-> Scale(x0[i][j], hs)]]
        mask == MaskAfterCheck(cached, q_len, k_len)
        built == ~cached.present
    IN
    IF ~(Broadcastable(mask.q, q_len) /\ Broadcastable(mask.k, k_len))
    THEN \* line 36 raises: the cached mask does not broadcast against x
         [mask |-> mask,
          call |-> call @@ [status |-> "error_where", built |-> built]]
    ELSE
    LET x2    == Where(mask, x1, q_len, k_len)
        out_q == Max(mask.q, q_len)
        out_k == Max(mask.k, k_len)
        done  == call @@ [built |-> built, x |-> x2,
                          out_q |-> out_q, out_k |-> out_k]
    IN
    IF out_k # v_len
    THEN \* line 40 raises: the weights' key axis and v's rows differ
         [mask |-> mask, call |-> done @@ [status |-> "error_v"]]
    ELSE [mask |-> mask, call |-> done @@ [status |-> "ok"]]

\* One AttentionCore.forward call.
Forward(inst, q_len, k_len, v_len, k_hs) ==
    \E r \in {ForwardResult(inst, q_len, k_len, v_len, k_hs)} :
        /\ causal_mask' = [causal_mask EXCEPT ![inst] = r.mask]
        /\ last' = r.call
        /\ UNCHANGED <<attention_head_size, cfgVars, ffVars, stackVars>>

\* A call whose q and k agree in their feature axis.
ForwardCall ==
    \E inst \in Instances, q_len \in Lens, k_len \in Lens, v_len \in Lens :
        Forward(inst, q_len, k_len, v_len, attention_head_size[inst])

\* A call whose k has one feature more than q (q, k and v of one length).
ForwardCallBadK ==
    \E inst \in Instances, n \in Lens :
        Forward(inst, n, n, n, attention_head_size[inst] + 1)

\* AttentionCore.__init__ of every instance.
AttnInit ==
    /\ \E hs \in HeadSizes : attention_head_size = [i \in Instances |-> hs]
    /\ causal_mask = [i \in Instances |-> NoneMask]
    /\ last = NoCall

\* No AttentionCore call is made.
AttnIdle ==
    /\ attention_head_size = [i \in Instances |-> 0]
    /\ causal_mask = [i \in Instances |-> NoneMask]
    /\ last = NoCall

\* No layer is being constructed.
CfgIdle ==
    /\ config = [dim |-> 0, num_heads |-> 0, mlp_ratio |-> 0, world_size |-> 0]
    /\ layer = [status |-> "none"]
    /\ shapes = <<>>

\* No FeedForward is evaluated.
FFIdle ==
    /\ ffIn = [world_size |-> 0]
    /\ ffPart = <<>>
    /\ ffOut = <<>>

\* No GPT.forward is running.
StackIdle ==
    /\ stack = [depth |-> 0, world_size |-> 0]
    /\ idx = <<>> /\ waiting = <<>> /\ hidden = <<>>
    /\ slots = <<>> /\ issued = <<>> /\ ret = <<>>

allVars == <<attnVars, cfgVars, ffVars, stackVars>>

AttnNext == ForwardCall \/ ForwardCallBadK

InitAttn == AttnInit /\ CfgIdle /\ FFIdle /\ StackIdle

SpecAttn == InitAttn /\ [][AttnNext]_allVars

\* ------------------------------------------------ AttentionCore properties

\* The call recorded in c got as far as line 36 (the scores were computed).
ReachedMask(c) == c.status \in {"ok", "error_v", "error_where"}

\* The call recorded in c applied the mask (line 36 returned).
AppliedWhere(c) == c.status \in {"ok", "error_v"}

Aborted(c) == c.status \in {"error_qk", "error_where", "error_v"}

\* m is the causal mask for lengths (q_len, k_len).
IsCausalFor(m, q_len, k_len) ==
    /\ m.present /\ m.q = q_len /\ m.k = k_len
    /\ \A i \in 1..q_len, j \in 1..k_len : m.rows[i][j] = (j <= i)

\* C1: two consecutive calls on one instance with the same lengths use the
\* same mask, and every call that reaches the masking step uses the causal
\* mask of its own (q_len, k_len), whatever an earlier call's lengths were.
C1_MaskFitsEveryCall ==
    [][ /\ ReachedMask(last') =>
              IsCausalFor(causal_mask'[last'.inst], last'.q_len, last'.k_len)
        /\ ( /\ ReachedMask(last) /\ ReachedMask(last')
             /\ last'.inst = last.inst
             /\ last'.q_len = last.q_len /\ last'.k_len = last.k_len )
           => causal_mask'[last'.inst] = causal_mask[last.inst]
      ]_attnVars

\* C3: a call that builds the mask builds mask[i][j] = (j <= i) for its own
\* lengths, and its masked scores hold the fill constant at every j > i and
\* the scaled score q[i].k[j] / sqrt(attention_head_size) at every j <= i.
C3_CausalOnBuild ==
    (AppliedWhere(last) /\ last.built) =>
        /\ IsCausalFor(causal_mask[last.inst], last.q_len, last.k_len)
        /\ DOMAIN last.x = 1..last.q_len
        /\ \A i \in 1..last.q_len :
              /\ DOMAIN last.x[i] = 1..last.k_len
              /\ \A j \in 1..last.k_len :
                    last.x[i][j] =
                        IF j > i
                        THEN [num |-> -10000, den2 |-> 1]
                        ELSE [num |-> i * (MaxLen + 1) + j,
                              den2 |-> attention_head_size[last.inst]]

\* A mask was built for 2 queries and 3 keys and applied.
C3_Witness ==
    /\ last.status = "ok" /\ last.built
    /\ last.q_len = 2 /\ last.k_len = 3

\* A step is a forward call on instance i.
CalledOn(i) == last' # last /\ last'.inst = i

\* C8 as stated: absent after construction, set by the first forward call,
\* never replaced once present, nothing else of the instance changes, and no
\* other instance's mask changes.
C8_WriteOnceAnyFirstCall ==
    [][ /\ last = NoCall => \A i \in Instances : ~causal_mask[i].present
        /\ \A i \in Instances :
              /\ (CalledOn(i) /\ ~causal_mask[i].present) => causal_mask'[i].present
              /\ causal_mask[i].present => causal_mask'[i] = causal_mask[i]
              /\ ~CalledOn(i) => causal_mask'[i] = causal_mask[i]
        /\ attention_head_size' = attention_head_size
      ]_attnVars

\* C8 amended: as C8, the mask being set by the first forward call that gets
\* past the score product of line 26 (an earlier call that fails there
\* leaves it absent).
C8_WriteOnce ==
    [][ /\ last = NoCall => \A i \in Instances : ~causal_mask[i].present
        /\ \A i \in Instances :
              /\ (CalledOn(i) /\ ~causal_mask[i].present) =>
                    IF last'.status = "error_qk"
                    THEN ~causal_mask'[i].present
                    ELSE IsCausalFor(causal_mask'[i], last'.q_len, last'.k_len)
              /\ causal_mask[i].present => causal_mask'[i] = causal_mask[i]
              /\ ~CalledOn(i) => causal_mask'[i] = causal_mask[i]
        /\ attention_head_size' = attention_head_size
      ]_attnVars

\* A call with other lengths than the cached mask's returned, both instances
\* holding a mask.
C8_Witness ==
    /\ last.status = "ok" /\ ~last.built
    /\ causal_mask[last.inst].q # last.q_len
    /\ \A i \in Instances : causal_mask[i].present

\* C10: a forward call that aborts leaves the instance as it was before the
\* call; in particular it leaves no newly cached mask behind.
C10_AbortChangesNothing ==
    [][ (last' # last /\ Aborted(last')) =>
            /\ causal_mask' = causal_mask
            /\ attention_head_size' = attention_head_size
      ]_attnVars


\* --------------------------------------------- construction and head layout

\* Largest hidden dimension and head count a layer is constructed with.
MaxDim == 8
MaxHeads == 4

\* world_size of the model-parallel group.
WorldSizes == {1, 2, 4}

\* mlp_ratio: the default and no expansion.
MlpRatios == {1, 4}

Configs ==
    [dim : 1..MaxDim, num_heads : 1..MaxHeads, mlp_ratio : MlpRatios,
     world_size : WorldSizes]

Ranks(ws) == 0..(ws - 1)

\* fairscale's ColumnParallelLinear / RowParallelLinear constructor: the
\* sharded dimension has to divide by world_size.
ShardedLinearOk(sharded_dim, ws) == sharded_dim % ws = 0

\* Width of the local output of ColumnParallelLinear(in, out,
\* gather_output=False): this rank's slice of out.
ColumnLocalWidth(out_dim, ws) == out_dim \div ws

\* The remainder taken for the quotient.
AttentionHeadSizeMod(dim, num_heads) == dim % num_heads

\* self.attention_head_size = dim // num_heads
AttentionHeadSize(dim, num_heads) == dim \div num_heads

\* SelfAttention.__init__: three column-sharded projections dim -> dim and
\* one row-sharded projection dim -> dim.
SelfAttentionInitOk(c) ==
    /\ ShardedLinearOk(c.dim, c.world_size)
    /\ ShardedLinearOk(c.dim, c.world_size)

\* FeedForward.__init__: column-sharded dim -> dim * ratio, row-sharded back.
FeedForwardInitOk(c) ==
    /\ ShardedLinearOk(c.dim * c.mlp_ratio, c.world_size)
    /\ ShardedLinearOk(c.dim * c.mlp_ratio, c.world_size)

\* GPTLayer.__init__
ConstructLayer ==
    /\ layer.status = "new"
    /\ layer' =
          IF SelfAttentionInitOk(config) /\ FeedForwardInitOk(config)
          THEN [status |-> "constructed",
                attention_head_size |->
                    AttentionHeadSize(config.dim, config.num_heads),
                ffn_hidden_size |-> config.dim * config.mlp_ratio]
          ELSE [status |-> "config_error"]
    /\ UNCHANGED <<config, shapes, attnVars, ffVars, stackVars>>

\* Lines 93-104 of SelfAttention.forward on one rank: the local projection
\* width, the head count derived from it, and the view into heads.
LocalHeadLayout(c, hs) ==
    LET all_head_size == ColumnLocalWidth(c.dim, c.world_size)
    IN  IF hs = 0
        THEN [status |-> "zero_division", all_head_size |-> all_head_size]
        ELSE LET num_attention_heads == all_head_size \div hs
             IN  [status |-> IF num_attention_heads * hs = all_head_size
                             THEN "ok" ELSE "view_error",
                  all_head_size |-> all_head_size,
                  num_attention_heads |-> num_attention_heads,
                  attention_head_size |-> hs]

\* SelfAttention.forward of a constructed layer, on every rank.
SelfAttentionForward ==
    /\ layer.status = "constructed"
    /\ shapes = <<>>
    /\ shapes' = [r \in Ranks(config.world_size) |->
                    LocalHeadLayout(config, layer.attention_head_size)]
    /\ UNCHANGED <<config, layer, attnVars, ffVars, stackVars>>

CfgInit ==
    /\ config \in Configs
    /\ layer = [status |-> "new"]
    /\ shapes = <<>>

CfgNext == ConstructLayer \/ SelfAttentionForward

InitCfg == CfgInit /\ AttnIdle /\ FFIdle /\ StackIdle

SpecCfg == InitCfg /\ [][CfgNext]_allVars

\* ------------------------------------------------- construction properties

RECURSIVE SumHeads(_, _)
SumHeads(sh, n) ==
    IF n = 0 THEN 0 ELSE sh[n - 1].num_attention_heads + SumHeads(sh, n - 1)

ForwardRan == shapes # <<>>

\* C4: a layer whose dim does not divide by num_heads, or one of whose
\* sharded dimensions does not divide by world_size, fails in its
\* constructor and never runs forward.
C4_BadConfigFailsAtInit ==
    ( \/ config.dim % config.num_heads # 0
      \/ config.dim % config.world_size # 0
      \/ (config.dim * config.mlp_ratio) % config.world_size # 0 )
    => /\ layer.status \in {"new", "config_error"}
       /\ ~ForwardRan

\* The head layout every rank has to end with.
HeadLayoutConsistent ==
    /\ \A r \in Ranks(config.world_size) :
          /\ shapes[r].status = "ok"
          /\ shapes[r].attention_head_size = config.dim \div config.num_heads
          /\ shapes[r].attention_head_size * config.num_heads = config.dim
          /\ shapes[r].num_attention_heads >= 1
          /\ shapes[r].num_attention_heads * shapes[r].attention_head_size
                = config.dim \div config.world_size
    /\ SumHeads(shapes, config.world_size) = config.num_heads

\* C9 as stated: dim divisible by num_heads and by world_size is enough for
\* every rank's local width to split exactly into at least one head of
\* size dim / num_heads, the local head counts adding up to num_heads.
C9_HeadLayoutDimDivisible ==
    ( /\ ForwardRan
      /\ config.dim % config.num_heads = 0
      /\ config.dim % config.world_size = 0 )
    => HeadLayoutConsistent

\* C9 amended: the same layout, for dim divisible by num_heads and
\* num_heads divisible by world_size.
C9_HeadLayoutHeadsDivisible ==
    ( /\ ForwardRan
      /\ config.dim % config.num_heads = 0
      /\ config.num_heads % config.world_size = 0 )
    => HeadLayoutConsistent

\* Forward ran on 2 ranks with 2 heads of size 2 each.
C9_Witness ==
    /\ ForwardRan
    /\ config.dim = 8 /\ config.num_heads = 4 /\ config.world_size = 2
    /\ shapes[1].num_attention_heads = 2


\* ------------------------------------------------ sharded feed-forward

\* Largest absolute value of an input element.
MaxX == 1

\* (hidden_size, ratio) of the layers evaluated; ratio 4 is the default.
FFShapes == {[hidden_size |-> 1, ratio |-> 4]}

WeightVals == {-1, 1}
BiasCoefs == {0, 1}

\* Integer stand-ins for the elementwise nonlinearity.
Activations == {"relu", "square"}

\* F.gelu on one element, over the integers.
ActElem(act, v) ==
    IF act = "relu" THEN (IF v > 0 THEN v ELSE 0) ELSE v * v

RECURSIVE SumOver(_, _, _)
\* f[lo] + ... + f[hi]
SumOver(f, lo, hi) == IF lo > hi THEN 0 ELSE f[lo] + SumOver(f, lo + 1, hi)

\* A function that is not elementwise: every element is taken relative to
\* the first element of the slice it is given.
ActivationFuncRowwise(act, h, cols) ==
    [j \in cols |->
        ActElem(act, h[j])
        - ActElem(act, h[CHOOSE m \in cols : \A n \in cols : m <= n])]

\* self.activation_func(intermediate_parallel) on a local slice h whose
\* columns are cols.
ActivationFunc(act, h, cols) == [j \in cols |-> ActElem(act, h[j])]

\* The contiguous slice of 1..n a rank owns.
ShardOf(n, ws, rank) ==
    ((n \div ws) * rank + 1)..((n \div ws) * (rank + 1))

\* ColumnParallelLinear(in, out, gather_output=False).forward on one rank:
\* the rank's columns of x.W + b.
ColumnParallelForward(x, W, b, in_dim, out_dim, ws, rank) ==
    [j \in ShardOf(out_dim, ws, rank) |->
        SumOver([i \in 1..in_dim |-> x[i] * W[i][j]], 1, in_dim) + b[j]]

\* The partial product of RowParallelLinear(in, out, input_is_parallel=True)
\* on one rank: the rank's rows of W against its slice h of the input.
RowParallelPartial(h, W, in_dim, out_dim, ws, rank) ==
    LET rows == ShardOf(in_dim, ws, rank)
        lo   == (in_dim \div ws) * rank + 1
        hi   == (in_dim \div ws) * (rank + 1)
    IN  [o \in 1..out_dim |->
            SumOver([j \in rows |-> h[j] * W[j][o]], lo, hi)]

\* all_reduce_sum of the ranks' partial products.
AllReduceSum(parts, out_dim, ws) ==
    [o \in 1..out_dim |-> SumOver([r \in 0..(ws - 1) |-> parts[r][o]], 0, ws - 1)]

\* RowParallelLinear's output: the reduced sum plus the bias, added once.
RowParallelOutput(parts, b, out_dim, ws) ==
    [o \in 1..out_dim |-> AllReduceSum(parts, out_dim, ws)[o] + b[o]]

\* self.ffn_hidden_size = hidden_size * ratio
FfnHiddenSize(in) == in.hidden_size * in.ratio

\* Lines 65-67 of FeedForward.forward on one rank, up to the partial
\* product dense_4h_to_h hands to its all-reduce.
FeedForwardLocal(in, rank) ==
    LET ffn  == FfnHiddenSize(in)
        cols == ShardOf(ffn, in.world_size, rank)
        h0   == ColumnParallelForward(in.x, in.W1, in.b1, in.hidden_size, ffn,
                                      in.world_size, rank)
        h1   == ActivationFunc(in.act, h0, cols)
    IN  RowParallelPartial(h1, in.W2, ffn, in.hidden_size, in.world_size, rank)

\* One rank runs FeedForward.forward up to the all-reduce of dense_4h_to_h.
FFLocal ==
    \E r \in Ranks(ffIn.world_size) :
        /\ ffPart[r] = <<>>
        /\ ffPart' = [ffPart EXCEPT ![r] = FeedForwardLocal(ffIn, r)]
        /\ UNCHANGED <<ffIn, ffOut, attnVars, cfgVars, stackVars>>

\* The all-reduce completes on one rank and FeedForward.forward returns.
FFReturn ==
    \E r \in Ranks(ffIn.world_size) :
        /\ \A p \in Ranks(ffIn.world_size) : ffPart[p] # <<>>
        /\ ffOut[r] = <<>>
        /\ ffOut' = [ffOut EXCEPT ![r] =
                        RowParallelOutput(ffPart, ffIn.b2, ffIn.hidden_size,
                                          ffIn.world_size)]
        /\ UNCHANGED <<ffIn, ffPart, attnVars, cfgVars, stackVars>>

FFInputs ==
    UNION { LET H == sh.hidden_size
                F == sh.hidden_size * sh.ratio
            IN  { [hidden_size |-> H, ratio |-> sh.ratio, world_size |-> ws,
                   act |-> act, x |-> x, W1 |-> W1, W2 |-> W2,
                   b1 |-> [j \in 1..F |-> c1 * j],
                   b2 |-> [o \in 1..H |-> c2 * o]] :
                    ws \in {w \in WorldSizes : F % w = 0},
                    act \in Activations,
                    x \in [1..H -> (-MaxX)..MaxX],
                    W1 \in [1..H -> [1..F -> WeightVals]],
                    W2 \in [1..F -> [1..H -> WeightVals]],
                    c1 \in BiasCoefs, c2 \in BiasCoefs }
          : sh \in FFShapes }

FFInit ==
    /\ ffIn \in FFInputs
    /\ ffPart = [r \in Ranks(ffIn.world_size) |-> <<>>]
    /\ ffOut = [r \in Ranks(ffIn.world_size) |-> <<>>]

FFNext == FFLocal \/ FFReturn

InitFF == FFInit /\ AttnIdle /\ CfgIdle /\ StackIdle

SpecFF == InitFF /\ [][FFNext]_allVars

\* The unsharded layer: act(x.W1 + b1).W2 + b2 over the whole weights.
DenseFeedForward(in) ==
    LET F == in.hidden_size * in.ratio
        H == in.hidden_size
        h == [j \in 1..F |->
                ActElem(in.act,
                        SumOver([i \in 1..H |-> in.x[i] * in.W1[i][j]], 1, H)
                        + in.b1[j])]
    IN  [o \in 1..H |-> SumOver([j \in 1..F |-> h[j] * in.W2[j][o]], 1, F)
                         + in.b2[o]]

\* C2: column-sharded projection, elementwise function on the local slice,
\* row-sharded projection summed by all-reduce: every rank returns what the
\* unsharded layer computes from the same weights and input, for every
\* world_size in {1, 2, 4}.
C2_ShardInvariance ==
    \A r \in Ranks(ffIn.world_size) :
        ffOut[r] # <<>> => ffOut[r] = DenseFeedForward(ffIn)

\* Four ranks returned, from partial products that are not all equal.
C2_Witness ==
    /\ ffIn.world_size = 4
    /\ \A r \in Ranks(4) : ffOut[r] # <<>>
    /\ ffPart[0] # ffPart[1]
    /\ ffIn.b2[1] # 0 /\ ffIn.x[1] # 0


\* ------------------------------------------------- the stack under SPMD

\* Deepest stack run.
MaxDepth == 2

\* Shape [batch, sequence, dim] of the hidden state given to GPT.forward.
HiddenShape == <<2, 16, 64>>

\* Collectives the forward of a sharded linear layer performs: an all-gather
\* when a column-sharded layer gathers its output, the all-reduce of a
\* row-sharded layer (which splits a full input locally, without
\* communication).
CollectivesOf(l) ==
    IF l.kind = "column"
    THEN (IF l.gather_output THEN <<"all_gather">> ELSE <<>>)
    ELSE <<"all_reduce">>

\* gather_output=True
GatherOutputOn == TRUE

\* gather_output of FeedForward.dense_h_to_4h
FeedForwardGatherOutput == FALSE

\* The sharded linear layers SelfAttention.forward calls, in call order.
SelfAttentionLayers ==
    << [name |-> "query", kind |-> "column", gather_output |-> FALSE],
       [name |-> "key",   kind |-> "column", gather_output |-> FALSE],
       [name |-> "value", kind |-> "column", gather_output |-> FALSE],
       [name |-> "dense", kind |-> "row",    input_is_parallel |-> TRUE] >>

\* The sharded linear layers FeedForward.forward calls, in call order.
FeedForwardLayers ==
    << [name |-> "dense_h_to_4h", kind |-> "column",
        gather_output |-> FeedForwardGatherOutput],
       [name |-> "dense_4h_to_h", kind |-> "row", input_is_parallel |-> TRUE] >>

RECURSIVE SublayerOps(_, _, _, _)
\* The collectives of one sublayer call of block b, in program order; the
\* one of its last layer produces the value the sublayer returns.
SublayerOps(b, sub, layers, i) ==
    IF i > Len(layers) THEN <<>>
    ELSE [n \in 1..Len(CollectivesOf(layers[i])) |->
             [kind |-> CollectivesOf(layers[i])[n], block |-> b, sub |-> sub,
              layer |-> layers[i].name, final |-> (i = Len(layers))]]
         \o SublayerOps(b, sub, layers, i + 1)

\* A block whose sublayer order depends on the rank.
BlockProgramByRank(rank, b) ==
    IF rank = 0
    THEN SublayerOps(b, "attn", SelfAttentionLayers, 1)
         \o SublayerOps(b, "mlp", FeedForwardLayers, 1)
    ELSE SublayerOps(b, "mlp", FeedForwardLayers, 1)
         \o SublayerOps(b, "attn", SelfAttentionLayers, 1)

\* GPTLayer.forward of block b: attention, then feed-forward, on every rank.
BlockProgram(rank, b) ==
    SublayerOps(b, "attn", SelfAttentionLayers, 1)
    \o SublayerOps(b, "mlp", FeedForwardLayers, 1)

\* The blocks visited last to first.
BlocksReversed(depth) == [i \in 1..depth |-> depth - i]

\* self.blocks: the blocks in the order GPT.forward visits them.
Blocks(depth) == [i \in 1..depth |-> i - 1]

RECURSIVE ProgramFrom(_, _, _)
ProgramFrom(rank, blocks, i) ==
    IF i > Len(blocks) THEN <<>>
    ELSE BlockProgram(rank, blocks[i]) \o ProgramFrom(rank, blocks, i + 1)

\* The collectives GPT.forward performs on one rank, in program order.
Program(rank) == ProgramFrom(rank, Blocks(stack.depth), 1)

SlotCount ==
    LET lens == {Len(Program(r)) : r \in Ranks(stack.world_size)}
    IN  CHOOSE m \in lens : \A n \in lens : n <= m

\* The tensor a rank hands to a collective: its partial product (or local
\* slice) for one layer of one sublayer, computed from its hidden state.
Contribution(rank, op) ==
    [rank |-> rank, kind |-> op.kind, block |-> op.block, sub |-> op.sub,
     layer |-> op.layer, shape |-> HiddenShape, input |-> hidden[rank]]

\* A rank runs its program up to the next collective and enters it.
Issue(r) ==
    /\ ~waiting[r]
    /\ idx[r] < Len(Program(r))
    /\ LET n  == idx[r] + 1
           op == Program(r)[n]
       IN  /\ slots' = [slots EXCEPT ![n][r] = Contribution(r, op)]
           /\ issued' = [issued EXCEPT ![r] =
                            Append(@, [kind |-> op.kind, block |-> op.block,
                                       sub |-> op.sub])]
    /\ waiting' = [waiting EXCEPT ![r] = TRUE]
    /\ UNCHANGED <<stack, idx, hidden, ret, attnVars, cfgVars, ffVars>>

\* The collective a rank is blocked in has every rank's tensor: it returns.
\* After a sublayer's last layer the rank adds the result to x (the
\* residual addition of GPTLayer.forward).
Complete(r) ==
    /\ waiting[r]
    /\ LET n  == idx[r] + 1
           op == Program(r)[n]
       IN  /\ \A p \in Ranks(stack.world_size) : slots[n][p] # <<>>
           /\ hidden' =
                 IF op.final
                 THEN [hidden EXCEPT ![r] =
                         Append(@, [block |-> op.block, sub |-> op.sub,
                                    from |-> {p \in Ranks(stack.world_size) :
                                                 slots[n][p] # <<>>},
                                    dense |->
                                        \A p \in Ranks(stack.world_size) :
                                            /\ slots[n][p] # <<>>
                                            /\ slots[n][p].kind = "all_reduce"
                                            /\ slots[n][p].block = op.block
                                            /\ slots[n][p].sub = op.sub
                                            /\ slots[n][p].layer = op.layer
                                            /\ slots[n][p].input = hidden[r]])]
                 ELSE hidden
    /\ idx' = [idx EXCEPT ![r] = @ + 1]
    /\ waiting' = [waiting EXCEPT ![r] = FALSE]
    /\ UNCHANGED <<stack, slots, issued, ret, attnVars, cfgVars, ffVars>>

\* GPT.forward returns x on one rank.
Return(r) ==
    /\ ~waiting[r]
    /\ idx[r] = Len(Program(r))
    /\ ret[r] = <<>>
    /\ ret' = [ret EXCEPT ![r] = [shape |-> HiddenShape, x |-> hidden[r]]]
    /\ UNCHANGED <<stack, idx, waiting, hidden, slots, issued, attnVars,
                    cfgVars, ffVars>>

StackInit ==
    /\ stack \in [depth : 0..MaxDepth, world_size : WorldSizes]
    /\ idx = [r \in Ranks(stack.world_size) |-> 0]
    /\ waiting = [r \in Ranks(stack.world_size) |-> FALSE]
    /\ hidden = [r \in Ranks(stack.world_size) |-> <<>>]
    /\ slots = [n \in 1..SlotCount |-> [r \in Ranks(stack.world_size) |-> <<>>]]
    /\ issued = [r \in Ranks(stack.world_size) |-> <<>>]
    /\ ret = [r \in Ranks(stack.world_size) |-> <<>>]

IssueStep == \E r \in Ranks(stack.world_size) : Issue(r)

CompleteStep == \E r \in Ranks(stack.world_size) : Complete(r)

ReturnStep == \E r \in Ranks(stack.world_size) : Return(r)

StackNext == IssueStep \/ CompleteStep \/ ReturnStep

InitStack == StackInit /\ AttnIdle /\ CfgIdle /\ FFIdle

SpecStack == InitStack /\ [][StackNext]_allVars

\* ------------------------------------------------------ stack properties

AllRanks == Ranks(stack.world_size)

\* The hidden state after the first n sublayer calls of the stack, each the
\* dense result of its all-reduce over every rank: attention and
\* feed-forward of block 0, of block 1, ...
InOrder(x, n) ==
    /\ Len(x) = n
    /\ \A i \in 1..n :
          /\ x[i].block = (i - 1) \div 2
          /\ x[i].sub = (IF i % 2 = 1 THEN "attn" ELSE "mlp")
          /\ x[i].dense

\* C5: GPT.forward returns its input after each of the depth blocks was
\* applied to it exactly once, in construction order; a block is entered
\* only with the result of all blocks before it; with depth = 0 the input
\* comes back unchanged.
C5_StackComposition ==
    \A r \in AllRanks :
        /\ ret[r] # <<>> =>
              /\ ret[r].shape = HiddenShape
              /\ InOrder(ret[r].x, 2 * stack.depth)
              /\ (stack.depth = 0 => ret[r].x = <<>>)
        /\ \A n \in DOMAIN slots :
              slots[n][r] # <<>> =>
                  InOrder(slots[n][r].input,
                          2 * slots[n][r].block
                          + (IF slots[n][r].sub = "attn" THEN 0 ELSE 1))

\* A rank returned from a stack of two blocks while another has not.
C5_Witness ==
    /\ stack.depth = 2 /\ stack.world_size = 2
    /\ ret[0] # <<>> /\ ret[1] = <<>>
    /\ Len(ret[0].x) = 4

\* C6: every sublayer call performs exactly one collective, the all-reduce
\* of its row-sharded projection, and never an all-gather; a rank's
\* collectives are attention's then feed-forward's of block 0, of block 1,
\* ..., two per block.
C6_OneAllReducePerSublayer ==
    \A r \in AllRanks :
        /\ \A i \in 1..Len(issued[r]) :
              issued[r][i] = [kind |-> "all_reduce", block |-> (i - 1) \div 2,
                              sub |-> IF i % 2 = 1 THEN "attn" ELSE "mlp"]
        /\ Len(issued[r]) = Len(hidden[r]) + (IF waiting[r] THEN 1 ELSE 0)
        /\ ret[r] # <<>> => Len(issued[r]) = 2 * stack.depth

\* A rank returned from two blocks after four all-reduces.
C6_Witness ==
    /\ stack.depth = 2 /\ stack.world_size = 4
    /\ ret[3] # <<>> /\ Len(issued[3]) = 4

\* C7: in every interleaving of the ranks, the tensors handed to one
\* collective are for the same layer and of the same shape on every rank, a
\* rank adds a sublayer's output to x only when the all-reduce holds the
\* partial product of every rank, and the ranks get the same sum.
C7_SameOrderAndBlocking ==
    /\ \A n \in DOMAIN slots : \A p, q \in AllRanks :
          (slots[n][p] # <<>> /\ slots[n][q] # <<>>) =>
              /\ slots[n][p].kind = slots[n][q].kind
              /\ slots[n][p].block = slots[n][q].block
              /\ slots[n][p].sub = slots[n][q].sub
              /\ slots[n][p].layer = slots[n][q].layer
              /\ slots[n][p].shape = slots[n][q].shape
    /\ \A r \in AllRanks :
          /\ \A n \in 1..idx[r] : \A p \in AllRanks : slots[n][p] # <<>>
          /\ \A i \in 1..Len(hidden[r]) :
                hidden[r][i].from = AllRanks /\ hidden[r][i].dense
    /\ \A p, q \in AllRanks :
          \A i \in 1..Len(hidden[p]) :
              i <= Len(hidden[q]) => hidden[p][i] = hidden[q][i]

\* Of four ranks, one is already blocked in the third all-reduce, one is
\* past the second and one is still blocked in the second.
C7_Witness ==
    /\ stack.world_size = 4
    /\ idx[0] = 2 /\ waiting[0] /\ Len(hidden[0]) = 2
    /\ idx[1] = 2 /\ ~waiting[1]
    /\ idx[3] = 1 /\ waiting[3] /\ Len(hidden[3]) = 1

====
